---- MODULE Spec2Model ----
(***************************************************************************)
(* A model of three-d's cube map texture (core/texture/texture_cube_map.rs) *)
(* over an explicit model of the graphics context it drives: texture        *)
(* handles, the texture and framebuffer bindings, per-handle storage and    *)
(* face contents, and the trace of device calls one operation issues.       *)
(***************************************************************************)
EXTENDS Integers, Sequences, FiniteSets, TLC

\* ---------------------------------------------------------------- bounds
MaxDim == 4          \* construction specification: widths and heights 1..MaxDim
MaxHandles == 2      \* texture handles the device can have live at once
MaxSlack == 5        \* data lengths tried around six faces: +/- MaxSlack
RenderDim == 2       \* lifecycle specification: square textures of side 1..RenderDim
CamRange == 3        \* camera specification: positions with x in 0..CamRange
MaxHeight == 2       \* orthographic heights n/d with n, d in 1..MaxHeight
MaxTris == 2         \* .dae documents: triangles of one Triangles primitive
MaxShapes == 2       \* .dae documents: primitive elements of one geometry
MaxPositions == 4    \* shaded vertices: floats given to new and update_positions
MaxUpdates == 2      \* shaded vertices: update_positions calls counted on one object

\* ------------------------------------------------------ program constants
NumSides == 6        \* `for i in 0..6`, the faces of a cube map
HdrBits == 8         \* `T::bits_per_channel() > 8`
EquiDiv == 4         \* `cpu_texture.width / 4`

Sides == 0..(NumSides - 1)     \* right, left, top, bottom, front, back
Handles == 1..MaxHandles
Interpolations == {"Nearest", "Linear"}
MipFilters == {"None"} \cup Interpolations     \* Option<Interpolation>
Formats == {"R", "RGB", "RGBA"}
DataTypes == {"u8", "f32"}                     \* T: TextureDataType

VARIABLES
    gl,        \* the graphics context: the device state behind `Context`
    texture,   \* the TextureCubeMap object the application holds (or none)
    last,      \* the last call made: its inputs, its result, the binding before
    control,   \* the CameraControl object and the Camera it wraps
    clast,     \* the last call made on the camera control: its inputs, its result
    loaded,    \* the .dae document given to Loaded::dae and what the call returned
    vertices,  \* the ShadedVertices object the application holds (or none)
    vlast      \* the last call made on the ShadedVertices: its inputs, its draw call

texVars == <<gl, texture, last>>
camVars == <<control, clast>>
daeVars == <<loaded>>
objVars == <<vertices, vlast>>
vars == <<gl, texture, last, control, clast, loaded, vertices, vlast>>

\* -------------------------------------------------------- the device model
Ev(op, a, b, c) == [op |-> op, a |-> a, b |-> b, c |-> c]

FilterCode(f) == CASE f = "None" -> 0 [] f = "Nearest" -> 1 [] f = "Linear" -> 2

NoContent == [kind |-> "none", lo |-> 0, hi |-> 0]
NoStorage == [calls |-> 0, levels |-> 0, width |-> 0, height |-> 0]
NoAttachment == [id |-> 0, side |-> 0, level |-> 0]

Emit(g, e) == [g EXCEPT !.log = Append(@, e)]

\* the handle the next generate returns: the smallest name not in use
FreeHandles(g) == Handles \ g.live
next_handle(g) == CHOOSE h \in FreeHandles(g) : \A k \in FreeHandles(g) : h <= k

\* crate::core::texture::generate: a fresh texture handle
generate(g) ==
    Emit([g EXCEPT !.live = @ \cup {next_handle(g)}],
         Ev("generate", next_handle(g), 0, 0))

delete_texture(g, id) ==
    Emit([g EXCEPT !.live = @ \ {id},
                   !.freedDead = @ \/ id \notin g.live,
                   !.texBound = IF @ = id THEN 0 ELSE @,
                   !.unit = IF @ = id THEN 0 ELSE @,
                   !.storage[id] = NoStorage,
                   !.faces[id] = [s \in Sides |-> NoContent]],
         Ev("delete_texture", id, 0, 0))

bind_texture(g, id) ==
    Emit([g EXCEPT !.texBound = id], Ev("bind_texture", id, 0, 0))

set_parameters(g, id, mip_map_filter) ==
    Emit(g, Ev("set_parameters", id, FilterCode(mip_map_filter), 0))

\* storage for the texture bound to TEXTURE_CUBE_MAP
tex_storage_2d(g, levels, width, height) ==
    Emit([g EXCEPT !.storage[g.texBound] =
                       [calls |-> @.calls + 1, levels |-> levels,
                        width |-> width, height |-> height]],
         Ev("tex_storage_2d", g.texBound, levels, 0))

\* T::fill: upload data[lo..hi) to one face of the bound texture
T_fill(g, side, lo, hi) ==
    Emit([g EXCEPT !.faces[g.texBound][side] = [kind |-> "data", lo |-> lo, hi |-> hi]],
         Ev("fill", side, lo, hi))

generate_mipmap(g) == Emit(g, Ev("generate_mipmap", g.texBound, 0, 0))

bind_framebuffer(g, fb) ==
    Emit([g EXCEPT !.fbBound = fb], Ev("bind_framebuffer", IF fb = "cube_rt" THEN 1 ELSE 0, 0, 0))

framebuffer_texture_2d(g, side, id, mip_level) ==
    Emit([g EXCEPT !.attach = [id |-> id, side |-> side, level |-> mip_level]],
         Ev("framebuffer_texture_2d", side, id, mip_level))

\* Program::use_texture: the texture the program samples from
use_texture(g, id) == Emit([g EXCEPT !.unit = id], Ev("use_texture", id, 0, 0))

\* what a clear or a draw does to the pixels of the bound draw target; src
\* tells whether the pixels were drawn from a sampled texture
touch(g, src) ==
    IF g.fbBound = "cube_rt" /\ g.attach.id # 0 /\ g.attach.level = 0
    THEN [g EXCEPT !.faces[g.attach.id][g.attach.side] =
                       [kind |-> "rendered", lo |-> src, hi |-> 0]]
    ELSE g

\* applying a ClearState to the bound draw target
clear(g) == Emit(touch(g, 0), Ev("clear", 0, 0, 0))

draw(g) == Emit(touch(g, IF g.unit \in g.live THEN 1 ELSE 0), Ev("draw", 0, 0, 0))

\* ------------------------------------------------------- texture helpers
color_channel_count(format) ==
    CASE format = "R" -> 1
      [] format = "RGB" -> 3
      [] format = "RGBA" -> 4

bits_per_channel(T) == IF T = "u8" THEN 8 ELSE 32

is_power_of_two(x) == x > 0 /\ \E k \in 0..x : 2^k = x

Max(a, b) == IF a >= b THEN a ELSE b

log2_floor(x) == CHOOSE k \in 0..x : 2^k <= x /\ x < 2^(k + 1)

calculate_number_of_mip_maps(mip_map_filter, width, height) ==
    IF mip_map_filter # "None" /\ is_power_of_two(width) /\ is_power_of_two(height)
    THEN log2_floor(Max(width, height)) + 1
    ELSE 1

\* TRUE when the length is the one the size and format call for
check_data_length(width, height, depth, format, length) ==
    length = width * height * depth * color_channel_count(format)

\* ------------------------------------------------------- TextureCubeMap
NoTexture ==
    [alive |-> FALSE, id |-> 0, width |-> 0, height |-> 0, format |-> "R",
     number_of_mip_maps |-> 0, is_hdr |-> FALSE, T |-> "u8"]

\* generate_mip_maps with the level test off by one
generate_mip_maps_above_two_levels(g, t) ==
    IF t.number_of_mip_maps > 2
    THEN generate_mipmap(bind_texture(g, t.id))
    ELSE g

generate_mip_maps(g, t) ==
    IF t.number_of_mip_maps > 1
    THEN generate_mipmap(bind_texture(g, t.id))
    ELSE g

RECURSIVE fill_faces(_, _, _)
fill_faces(g, offset, i) ==
    IF i >= NumSides THEN g
    ELSE fill_faces(T_fill(g, i, i * offset, (i + 1) * offset), offset, i + 1)

\* fill with the check made after the upload instead of before it
fill_uploads_before_check(g, t, len) ==
    LET offset == len \div 6
        g1 == fill_faces(bind_texture(g, t.id), offset, 0)
    IN  IF ~check_data_length(t.width, t.height, 1, t.format, offset)
        THEN [g |-> g1, res |-> "SizeMismatch"]
        ELSE [g |-> generate_mip_maps(g1, t), res |-> "Ok"]

\* fill allocating the storage anew before it uploads
fill_allocating_storage(g, t, len) ==
    LET offset == len \div 6 IN
    IF ~check_data_length(t.width, t.height, 1, t.format, offset)
    THEN [g |-> g, res |-> "SizeMismatch"]
    ELSE [g |-> generate_mip_maps(
                    fill_faces(tex_storage_2d(bind_texture(g, t.id), 1, t.width, t.height),
                               offset, 0), t),
          res |-> "Ok"]

\* fill regenerating the mip-maps before the faces are uploaded
fill_regenerating_first(g, t, len) ==
    LET offset == len \div 6 IN
    IF ~check_data_length(t.width, t.height, 1, t.format, offset)
    THEN [g |-> g, res |-> "SizeMismatch"]
    ELSE [g |-> fill_faces(bind_texture(generate_mip_maps(g, t), t.id), offset, 0),
          res |-> "Ok"]

fill(g, t, len) ==
    LET offset == len \div 6 IN
    IF ~check_data_length(t.width, t.height, 1, t.format, offset)
    THEN [g |-> g, res |-> "SizeMismatch"]
    ELSE [g |-> generate_mip_maps(fill_faces(bind_texture(g, t.id), offset, 0), t),
          res |-> "Ok"]

\* Drop for TextureCubeMap
drop(g, t) == delete_texture(g, t.id)

\* the mip count computed from the width alone
new_number_of_mip_maps_of_width(cpu) ==
    calculate_number_of_mip_maps(cpu.mip_map_filter, cpu.width, cpu.width)

new_number_of_mip_maps(cpu) ==
    calculate_number_of_mip_maps(cpu.mip_map_filter, cpu.width, cpu.height)

\* the requested mip filter passed on whatever the mip count
mip_filter_parameter_as_requested(number_of_mip_maps, mip_map_filter) == mip_map_filter

mip_filter_parameter(number_of_mip_maps, mip_map_filter) ==
    IF number_of_mip_maps = 1 THEN "None" ELSE mip_map_filter

\* the HDR flag as new and new_empty compute it
new_is_hdr(T) == bits_per_channel(T) > HdrBits

\* the flag set from eight bits on
new_empty_is_hdr_from_eight_bits(T) == bits_per_channel(T) >= HdrBits

new_empty_is_hdr(T) == bits_per_channel(T) > HdrBits

new(g, cpu, T, fault) ==
    IF fault = "generate" THEN [g |-> g, res |-> "DeviceError", tex |-> NoTexture]
    ELSE
    LET id == next_handle(g)
        number_of_mip_maps == new_number_of_mip_maps(cpu)
        g1 == set_parameters(generate(g), id,
                  mip_filter_parameter(number_of_mip_maps, cpu.mip_map_filter))
        g2 == bind_texture(g1, id)
    IN  IF fault = "internal_format"
        THEN [g |-> g2, res |-> "FormatNotSupported", tex |-> NoTexture]
        ELSE
        LET g3 == tex_storage_2d(g2, number_of_mip_maps, cpu.width, cpu.height)
            t == [alive |-> TRUE, id |-> id, width |-> cpu.width,
                  height |-> cpu.height, format |-> cpu.format,
                  number_of_mip_maps |-> number_of_mip_maps,
                  is_hdr |-> new_is_hdr(T), T |-> T]
            f == fill(g3, t, cpu.len)
        IN  IF f.res # "Ok"
            THEN [g |-> drop(f.g, t), res |-> f.res, tex |-> NoTexture]
            ELSE [g |-> f.g, res |-> "Ok", tex |-> t]

new_empty_number_of_mip_maps(mip_map_filter, width, height) ==
    calculate_number_of_mip_maps(mip_map_filter, width, height)

new_empty(g, width, height, mip_map_filter, format, T, fault) ==
    IF fault = "generate" THEN [g |-> g, res |-> "DeviceError", tex |-> NoTexture]
    ELSE
    LET id == next_handle(g)
        number_of_mip_maps == new_empty_number_of_mip_maps(mip_map_filter, width, height)
        g1 == set_parameters(generate(g), id,
                  mip_filter_parameter(number_of_mip_maps, mip_map_filter))
        g2 == bind_texture(g1, id)
    IN  IF fault = "internal_format"
        THEN [g |-> g2, res |-> "FormatNotSupported", tex |-> NoTexture]
        ELSE
        LET g3 == tex_storage_2d(g2, number_of_mip_maps, width, height)
            t == [alive |-> TRUE, id |-> id, width |-> width, height |-> height,
                  format |-> format, number_of_mip_maps |-> number_of_mip_maps,
                  is_hdr |-> new_empty_is_hdr(T), T |-> T]
        IN  [g |-> generate_mip_maps(g3, t), res |-> "Ok", tex |-> t]

\* the attachment made to the first face whatever the side asked for
bind_as_color_target_of_first_side(g, t, side, channel, mip_level) ==
    framebuffer_texture_2d(g, 0, t.id, mip_level)

bind_as_color_target(g, t, side, channel, mip_level) ==
    framebuffer_texture_2d(g, side, t.id, mip_level)

\* ------------------------------------------------- RenderTargetCubeMap
\* the render callback: it draws into the bound target, then returns Ok or an error
render(g, cb) == draw(Emit(g, Ev("callback", IF cb.ok THEN 1 ELSE 0, 0, 0)))

RenderTargetCubeMap_new_color(g) == Emit(g, Ev("gen_framebuffer", 0, 0, 0))

RenderTargetCubeMap_drop(g) ==
    Emit([g EXCEPT !.attach = NoAttachment], Ev("delete_framebuffer", 0, 0, 0))

\* the scoped write returning early when the callback fails (`render()?`)
write_to_mip_level_returning_early(g, t, side, mip_level, cb) ==
    IF mip_level >= t.number_of_mip_maps
    THEN [g |-> g, res |-> "InvalidAttachment"]
    ELSE
    LET pre == g.fbBound
        g1 == bind_as_color_target(bind_framebuffer(g, "cube_rt"), t, side, 0, mip_level)
        g2 == render(clear(g1), cb)
    IN  IF cb.ok
        THEN [g |-> generate_mip_maps(bind_framebuffer(g2, pre), t), res |-> "Ok"]
        ELSE [g |-> g2, res |-> "RenderError"]

\* the scoped write clearing after the callback instead of before it
write_to_mip_level_clearing_late(g, t, side, mip_level, cb) ==
    IF mip_level >= t.number_of_mip_maps
    THEN [g |-> g, res |-> "InvalidAttachment"]
    ELSE
    LET pre == g.fbBound
        g1 == bind_as_color_target(bind_framebuffer(g, "cube_rt"), t, side, 0, mip_level)
        g2 == clear(render(g1, cb))
        g3 == generate_mip_maps(bind_framebuffer(g2, pre), t)
    IN  [g |-> g3, res |-> IF cb.ok THEN "Ok" ELSE "RenderError"]

\* the scoped write validating the level after binding and attaching
write_to_mip_level_validating_late(g, t, side, mip_level, cb) ==
    LET pre == g.fbBound
        g1 == bind_as_color_target(bind_framebuffer(g, "cube_rt"), t, side, 0, mip_level)
    IN
    IF mip_level >= t.number_of_mip_maps
    THEN [g |-> bind_framebuffer(g1, pre), res |-> "InvalidAttachment"]
    ELSE
    LET g2 == render(clear(g1), cb)
        g3 == generate_mip_maps(bind_framebuffer(g2, pre), t)
    IN  [g |-> g3, res |-> IF cb.ok THEN "Ok" ELSE "RenderError"]

\* the scoped write: validate, bind and attach, clear once, run the callback,
\* then unbind and regenerate the mip-maps on every exit path
RenderTargetCubeMap_write_to_mip_level(g, t, side, mip_level, cb) ==
    IF mip_level >= t.number_of_mip_maps
    THEN [g |-> g, res |-> "InvalidAttachment"]
    ELSE
    LET pre == g.fbBound
        g1 == bind_as_color_target(bind_framebuffer(g, "cube_rt"), t, side, 0, mip_level)
        g2 == render(clear(g1), cb)
        g3 == generate_mip_maps(bind_framebuffer(g2, pre), t)
    IN  [g |-> g3, res |-> IF cb.ok THEN "Ok" ELSE "RenderError"]

RenderTargetCubeMap_write(g, t, side, cb) ==
    RenderTargetCubeMap_write_to_mip_level(g, t, side, 0, cb)

\* ------------------------------------------- TextureCubeMap, continued
write(g, t, side, cb, rtOk) ==
    IF ~rtOk THEN [g |-> g, res |-> "DeviceError"]
    ELSE
    LET r == RenderTargetCubeMap_write(RenderTargetCubeMap_new_color(g), t, side, cb)
    IN  [g |-> RenderTargetCubeMap_drop(r.g), res |-> r.res]

write_to_mip_level(g, t, side, mip_level, cb, rtOk) ==
    IF ~rtOk THEN [g |-> g, res |-> "DeviceError"]
    ELSE
    LET r == RenderTargetCubeMap_write_to_mip_level(RenderTargetCubeMap_new_color(g),
                                                    t, side, mip_level, cb)
    IN  [g |-> RenderTargetCubeMap_drop(r.g), res |-> r.res]

\* TextureCube::bind
bind(g, t) == bind_texture(g, t.id)

\* the pass applying the effect before the source map is bound
equirectangular_pass_binding_late(g, t, map, side, fault) ==
    LET ok == fault # [stage |-> "apply", side |-> side]
        r == RenderTargetCubeMap_write(g, t, side, [ok |-> ok])
    IN  IF r.res # "Ok" THEN r
        ELSE IF fault = [stage |-> "use_texture", side |-> side]
        THEN [g |-> r.g, res |-> "UnknownBinding"]
        ELSE [g |-> use_texture(r.g, map), res |-> "Ok"]

\* the pass going on when the binding fails (use_texture without its `?`)
equirectangular_pass_ignoring_binding(g, t, map, side, fault) ==
    LET ok == fault # [stage |-> "apply", side |-> side]
        g1 == IF fault = [stage |-> "use_texture", side |-> side]
              THEN g ELSE use_texture(g, map)
    IN  RenderTargetCubeMap_write(g1, t, side, [ok |-> ok])

\* one pass of new_from_equirectangular: bind the source map to the program,
\* then apply the effect to one side of the render target
equirectangular_pass(g, t, map, side, fault) ==
    IF fault = [stage |-> "use_texture", side |-> side]
    THEN [g |-> g, res |-> "UnknownBinding"]
    ELSE
    LET ok == fault # [stage |-> "apply", side |-> side]
    IN  RenderTargetCubeMap_write(use_texture(g, map), t, side, [ok |-> ok])

\* CubeMapSide::iter(): right, left, top, bottom, front, back
CubeMapSide_iter == [i \in 1..NumSides |-> i - 1]

\* the loop leaving out the last side
RECURSIVE equirectangular_passes_but_last(_, _, _, _, _)
equirectangular_passes_but_last(g, t, map, sides, fault) ==
    IF Len(sides) <= 1 THEN [g |-> g, res |-> "Ok"]
    ELSE LET r == equirectangular_pass(g, t, map, Head(sides), fault) IN
         IF r.res # "Ok" THEN r
         ELSE equirectangular_passes_but_last(r.g, t, map, Tail(sides), fault)

\* `for side in CubeMapSide::iter()`: one pass per side, stopping at the first
\* pass that fails
RECURSIVE equirectangular_passes(_, _, _, _, _)
equirectangular_passes(g, t, map, sides, fault) ==
    IF sides = <<>> THEN [g |-> g, res |-> "Ok"]
    ELSE LET r == equirectangular_pass(g, t, map, Head(sides), fault) IN
         IF r.res # "Ok" THEN r
         ELSE equirectangular_passes(r.g, t, map, Tail(sides), fault)

Stage(name) == [stage |-> name, side |-> 0]

\* new_from_equirectangular with the order of the six passes made explicit
new_from_equirectangular_over(g, width, T, fault, sides) ==
    LET e == new_empty(g, width \div 4, width \div 4, "Linear", "RGBA", T,
                       IF fault.stage \in {"generate", "internal_format"}
                       THEN fault.stage ELSE "none")
    IN
    IF e.res # "Ok" THEN e
    ELSE IF fault.stage = "map"
    THEN [g |-> drop(e.g, e.tex), res |-> "SizeMismatch", tex |-> NoTexture]
    ELSE
    LET map == next_handle(e.g)
        g1 == generate(e.g)
    IN
    IF fault.stage = "program"
    THEN [g |-> drop(delete_texture(g1, map), e.tex), res |-> "ShaderCompileError",
          tex |-> NoTexture]
    ELSE IF fault.stage = "render_target"
    THEN [g |-> drop(delete_texture(g1, map), e.tex), res |-> "DeviceError",
          tex |-> NoTexture]
    ELSE
    LET p == equirectangular_passes(RenderTargetCubeMap_new_color(g1), e.tex, map,
                                    sides, fault)
        g2 == delete_texture(RenderTargetCubeMap_drop(p.g), map)
    IN  IF p.res # "Ok"
        THEN [g |-> drop(g2, e.tex), res |-> p.res, tex |-> NoTexture]
        ELSE [g |-> g2, res |-> "Ok", tex |-> e.tex]

new_from_equirectangular(g, width, T, fault) ==
    new_from_equirectangular_over(g, width, T, fault, CubeMapSide_iter)

\* ---------------------------------------------------------------- inputs
FaceLen(width, height, format) == width * height * color_channel_count(format)

\* data lengths tried for a texture: empty, one face, five faces, and every
\* length within slack of six faces
DataLens(width, height, format, slack) ==
    LET F == FaceLen(width, height, format) IN
    {0, F, 5 * F} \cup {n \in (6 * F - slack)..(6 * F + slack) : n >= 0}

\* sizes: <<width, height>> pairs
CpuTextures(sizes, formats, filters, slack) ==
    UNION {[width : {wh[1]}, height : {wh[2]}, format : {f}, mip_map_filter : filters,
            len : DataLens(wh[1], wh[2], f, slack)] : <<wh, f>> \in sizes \X formats}

CtorFaults == {"none", "generate", "internal_format"}

EquiFaults ==
    {Stage(n) : n \in CtorFaults \cup {"map", "program", "render_target"}}
    \cup [stage : {"use_texture", "apply"}, side : Sides]

Callbacks == [ok : BOOLEAN]

\* the sides the lifecycle specification renders to: right, bottom and back
RenderSides == {0, NumSides \div 2, NumSides - 1}

\* a failing RenderTargetCubeMap::new_color is tried with one side and callback
RenderInputs ==
    [side : RenderSides, cb : Callbacks, rtOk : {TRUE}]
    \cup [side : {0}, cb : {[ok |-> TRUE]}, rtOk : {FALSE}]

\* ------------------------------------------------------------ the camera
\* Vec3 and f32 values on an integer lattice; nan marks a vector whose
\* components are not numbers (the result of 0.0 / 0.0)
Vec3(x, y, z) == [nan |-> FALSE, x |-> x, y |-> y, z |-> z]
NaNVec == [nan |-> TRUE, x |-> 0, y |-> 0, z |-> 0]

Abs(a) == IF a < 0 THEN -a ELSE a
Min(a, b) == IF a <= b THEN a ELSE b

add(a, b) == IF a.nan \/ b.nan THEN NaNVec ELSE Vec3(a.x + b.x, a.y + b.y, a.z + b.z)
sub(a, b) == IF a.nan \/ b.nan THEN NaNVec ELSE Vec3(a.x - b.x, a.y - b.y, a.z - b.z)
scale(a, k) == IF a.nan THEN NaNVec ELSE Vec3(a.x * k, a.y * k, a.z * k)
cross(a, b) ==
    IF a.nan \/ b.nan THEN NaNVec
    ELSE Vec3(a.y * b.z - a.z * b.y, a.z * b.x - a.x * b.z, a.x * b.y - a.y * b.x)

\* the vectors the lattice can measure exactly: along one axis
AxisAligned(v) ==
    ~v.nan /\ Cardinality({c \in {"x", "y", "z"} : v[c] # 0}) <= 1

\* InnerSpace::magnitude of an axis-aligned vector
magnitude(v) == Abs(v.x) + Abs(v.y) + Abs(v.z)

\* InnerSpace::normalize: v / magnitude; the zero vector gives 0.0 / 0.0
normalize(v) ==
    IF v.nan \/ magnitude(v) = 0 THEN NaNVec
    ELSE Vec3(v.x \div magnitude(v), v.y \div magnitude(v), v.z \div magnitude(v))

\* the height of an orthographic projection: num / den in lowest terms, or
\* not a finite number
RECURSIVE GCD(_, _)
GCD(a, b) == IF b = 0 THEN a ELSE GCD(b, a % b)

Height(num, den) ==
    [finite |-> TRUE, num |-> num \div GCD(num, den), den |-> den \div GCD(num, den)]
NotFinite == [finite |-> FALSE, num |-> 0, den |-> 1]

Perspective == [kind |-> "Perspective", height |-> Height(1, 1)]
Orthographic(height) == [kind |-> "Orthographic", height |-> height]

\* Camera::set_view: the view is stored as given
set_view(c, position, target, up) ==
    [c EXCEPT !.position = position, !.target = target, !.up = up]

set_orthographic_projection(c, height) ==
    [c EXCEPT !.projection = Orthographic(height)]

view_direction(c) == normalize(sub(c.target, c.position))
right_direction(c) == normalize(cross(view_direction(c), c.up))

\* ControlType: the variant, and the fields of the variants that have them
ControlType(kind, target, speed, min, max) ==
    [kind |-> kind, target |-> target, speed |-> speed, min |-> min, max |-> max]

ControlType_None == ControlType("None", Vec3(0, 0, 0), 0, 0, 0)

\* EventHandler::default: no control on any button or on the wheel
EventHandler_default ==
    [left_drag |-> ControlType_None, middle_drag |-> ControlType_None,
     right_drag |-> ControlType_None, scroll |-> ControlType_None]

\* CameraControl::new
CameraControl_new(camera, event_handler) ==
    [position |-> camera.position, target |-> camera.target, up |-> camera.up,
     projection |-> camera.projection, left |-> FALSE, middle |-> FALSE, right |-> FALSE,
     event_handler |-> event_handler]

\* translate moving the position only
translate_of_position(c, change, fault) ==
    IF fault = "set_view" THEN [c |-> c, res |-> "Err"]
    ELSE [c |-> set_view(c, add(c.position, change), c.target, c.up), res |-> "Ok"]

translate(c, change, fault) ==
    IF fault = "set_view" THEN [c |-> c, res |-> "Err"]
    ELSE [c |-> set_view(c, add(c.position, change), add(c.target, change), c.up),
          res |-> "Ok"]

pan(c, x, y, fault) ==
    LET right == right_direction(c)
        up == cross(right, view_direction(c))
        delta == add(scale(right, -x), scale(up, y))
    IN  translate(c, delta, fault)

\* (distance - delta).max(minimum).min(maximum); f32::max and f32::min return
\* the other operand when one is not a number
zoom_new_distance(distance_nan, distance, delta, minimum_distance, maximum_distance) ==
    IF distance_nan THEN Min(minimum_distance, maximum_distance)
    ELSE Min(Max(distance - delta, minimum_distance), maximum_distance)

\* the two CameraError values of zoom_towards, told apart by their message
NegativeMinimum == "CameraError: negative minimum distance"
SmallerMaximum == "CameraError: maximum distance smaller than the minimum distance"
CameraErrors == {NegativeMinimum, SmallerMaximum}

\* zoom_towards refusing only a minimum below zero, as its message says
zoom_towards_accepting_zero(c, point, delta, minimum_distance, maximum_distance, fault) ==
    IF minimum_distance < 0 THEN [c |-> c, res |-> NegativeMinimum]
    ELSE IF maximum_distance < minimum_distance THEN [c |-> c, res |-> SmallerMaximum]
    ELSE
    LET position == c.position
        to_point == sub(point, position)
        distance == magnitude(to_point)
        direction == normalize(to_point)
        new_distance == zoom_new_distance(to_point.nan, distance, delta,
                                          minimum_distance, maximum_distance)
        new_position == sub(point, scale(direction, new_distance))
        c1 == set_view(c, new_position, add(new_position, sub(c.target, position)), c.up)
    IN
    IF fault = "set_view" THEN [c |-> c, res |-> "Err"]
    ELSE IF c.projection.kind # "Orthographic" THEN [c |-> c1, res |-> "Ok"]
    ELSE IF fault = "set_orthographic_projection" THEN [c |-> c1, res |-> "Err"]
    ELSE
    LET height == c.projection.height
        h == IF to_point.nan \/ distance = 0 \/ ~height.finite THEN NotFinite
             ELSE Height(new_distance * height.num, distance * height.den)
    IN  [c |-> set_orthographic_projection(c1, h), res |-> "Ok"]

zoom_towards(c, point, delta, minimum_distance, maximum_distance, fault) ==
    IF minimum_distance <= 0 THEN [c |-> c, res |-> NegativeMinimum]
    ELSE IF maximum_distance < minimum_distance THEN [c |-> c, res |-> SmallerMaximum]
    ELSE
    LET position == c.position
        to_point == sub(point, position)
        distance == magnitude(to_point)
        direction == normalize(to_point)
        new_distance == zoom_new_distance(to_point.nan, distance, delta,
                                          minimum_distance, maximum_distance)
        new_position == sub(point, scale(direction, new_distance))
        c1 == set_view(c, new_position, add(new_position, sub(c.target, position)), c.up)
    IN
    IF fault = "set_view" THEN [c |-> c, res |-> "Err"]
    ELSE IF c.projection.kind # "Orthographic" THEN [c |-> c1, res |-> "Ok"]
    ELSE IF fault = "set_orthographic_projection" THEN [c |-> c1, res |-> "Err"]
    ELSE
    LET height == c.projection.height
        h == IF to_point.nan \/ distance = 0 \/ ~height.finite THEN NotFinite
             ELSE Height(new_distance * height.num, distance * height.den)
    IN  [c |-> set_orthographic_projection(c1, h), res |-> "Ok"]

\* rotation_matrix_from_dir_to_dir, for the rotations the lattice measures
\* exactly: from a direction to itself
rotation_matrix_from_dir_to_dir(dir, new_dir) ==
    IF dir.nan \/ new_dir.nan THEN "nan"
    ELSE CASE dir = new_dir -> "identity"

rotate(rotation, v) == IF rotation = "nan" THEN NaNVec ELSE v

dot(a, b) == a.x * b.x + a.y * b.y + a.z * b.z

rotate_around(c, point, x, y, fault) ==
    LET dir == normalize(sub(point, c.position))
        right == cross(dir, c.up)
        up == cross(right, dir)
        new_dir == normalize(add(sub(point, c.position),
                                 sub(scale(right, x), scale(up, y))))
        rotation == rotation_matrix_from_dir_to_dir(dir, new_dir)
        new_position == add(rotate(rotation, sub(c.position, point)), point)
        new_target == add(rotate(rotation, sub(c.target, point)), point)
    IN  IF fault = "set_view" THEN [c |-> c, res |-> "Err"]
        ELSE [c |-> set_view(c, new_position, new_target, up), res |-> "Ok"]

rotate_around_with_fixed_up(c, point, x, y, fault) ==
    LET dir == normalize(sub(point, c.position))
        right == cross(dir, c.up)
        up0 == cross(right, dir)
        new_dir == normalize(add(sub(point, c.position),
                                 sub(scale(right, x), scale(up0, y))))
        up == c.up
    IN  IF ~new_dir.nan /\ ~up.nan /\ Abs(dot(new_dir, up)) < 1
        THEN LET rotation == rotation_matrix_from_dir_to_dir(dir, new_dir)
                 new_position == add(rotate(rotation, sub(c.position, point)), point)
                 new_target == add(rotate(rotation, sub(c.target, point)), point)
             IN  IF fault = "set_view" THEN [c |-> c, res |-> "Err"]
                 ELSE [c |-> set_view(c, new_position, new_target, up), res |-> "Ok"]
        ELSE [c |-> c, res |-> "Ok"]

\* `Ok(b)` after the `?` of the call that gave r: the error of r, or Ok(b)
Ok_bool(r, b) == [c |-> r.c, res |-> r.res, change |-> r.res = "Ok" /\ b]

\* handle_drag reporting a change for every control type, None included
handle_drag_always_changed(c, control_type, x, y, fault) ==
    LET k == control_type
        r == CASE k.kind = "RotateAround" ->
                      rotate_around(c, k.target, k.speed * x, k.speed * y, fault)
               [] k.kind = "RotateAroundWithFixedUp" ->
                      rotate_around_with_fixed_up(c, k.target, k.speed * x, k.speed * y, fault)
               [] k.kind = "Pan" -> pan(c, k.speed * x, k.speed * y, fault)
               [] k.kind = "ZoomHorizontal" ->
                      zoom_towards(c, k.target, k.speed * x, k.min, k.max, fault)
               [] k.kind = "ZoomVertical" ->
                      zoom_towards(c, k.target, k.speed * y, k.min, k.max, fault)
               [] k.kind = "None" -> [c |-> c, res |-> "Ok"]
    IN  Ok_bool(r, TRUE)

\* the result is the camera, Ok or the error, and the bool of Ok(bool)
handle_drag(c, control_type, x, y, fault) ==
    LET k == control_type
        r == CASE k.kind = "RotateAround" ->
                      rotate_around(c, k.target, k.speed * x, k.speed * y, fault)
               [] k.kind = "RotateAroundWithFixedUp" ->
                      rotate_around_with_fixed_up(c, k.target, k.speed * x, k.speed * y, fault)
               [] k.kind = "Pan" -> pan(c, k.speed * x, k.speed * y, fault)
               [] k.kind = "ZoomHorizontal" ->
                      zoom_towards(c, k.target, k.speed * x, k.min, k.max, fault)
               [] k.kind = "ZoomVertical" ->
                      zoom_towards(c, k.target, k.speed * y, k.min, k.max, fault)
               [] k.kind = "None" -> [c |-> c, res |-> "Ok"]
    IN  Ok_bool(r, k.kind # "None")

\* `change |= d?`: the camera and the result of the drag d, its bool or-ed in
or_assign(r, d) == [c |-> d.c, res |-> d.res, change |-> r.change \/ d.change]

\* `if pressed { change |= self.handle_drag(control_type, x, y)?; }` after the
\* steps that gave r
drag_if(pressed, r, control_type, x, y, fault) ==
    IF r.res # "Ok" \/ ~pressed THEN r
    ELSE or_assign(r, handle_drag(r.c, control_type, x, y, fault))

\* the MouseClick arm with the handled flag not looked at
mouse_click_ignoring_handled(r, event) ==
    LET pressed == event.state = "Pressed" IN
    CASE event.button = "Left" -> [r EXCEPT !.c.left = pressed]
      [] event.button = "Middle" -> [r EXCEPT !.c.middle = pressed]
      [] event.button = "Right" -> [r EXCEPT !.c.right = pressed]

\* the MouseClick arm setting the flag on a press and on a release
mouse_click_setting_on_release(r, event) ==
    IF event.handled THEN r
    ELSE CASE event.button = "Left" -> [r EXCEPT !.c.left = TRUE]
           [] event.button = "Middle" -> [r EXCEPT !.c.middle = TRUE]
           [] event.button = "Right" -> [r EXCEPT !.c.right = TRUE]

\* the Event::MouseClick arm of handle_events
mouse_click(r, event) ==
    IF event.handled THEN r
    ELSE LET pressed == event.state = "Pressed" IN
         CASE event.button = "Left" -> [r EXCEPT !.c.left = pressed]
           [] event.button = "Middle" -> [r EXCEPT !.c.middle = pressed]
           [] event.button = "Right" -> [r EXCEPT !.c.right = pressed]

\* the Event::MouseMotion arm: the drags of the pressed buttons, left, middle,
\* right
mouse_motion(r, event, fault) ==
    IF event.handled THEN r
    ELSE LET h == r.c.event_handler
             r1 == drag_if(r.c.left, r, h.left_drag, event.x, event.y, fault)
             r2 == drag_if(r.c.middle, r1, h.middle_drag, event.x, event.y, fault)
         IN  drag_if(r.c.right, r2, h.right_drag, event.x, event.y, fault)

\* the Event::MouseWheel arm
mouse_wheel(r, event, fault) ==
    IF event.handled THEN r
    ELSE drag_if(TRUE, r, r.c.event_handler.scroll, event.x, event.y, fault)

\* one turn of the loop over the events
handle_event(r, event, fault) ==
    CASE event.kind = "MouseClick" -> mouse_click(r, event)
      [] event.kind = "MouseMotion" -> mouse_motion(r, event, fault)
      [] event.kind = "MouseWheel" -> mouse_wheel(r, event, fault)
      [] OTHER -> r

\* `for event in events.iter()`: r is what the turns made so far gave; the
\* `?` of a failing drag ends the loop and the call
RECURSIVE handle_events_from(_, _, _)
handle_events_after(r1, events, fault) ==
    IF r1.res # "Ok" THEN [r1 EXCEPT !.change = FALSE]
    ELSE handle_events_from(r1, events, fault)

handle_events_from(r, events, fault) ==
    IF events = <<>> THEN r
    ELSE handle_events_after(handle_event(r, Head(events), fault), Tail(events), fault)

\* the result r with the control c put back if r is an error
undone(c, r) == IF r.res # "Ok" THEN [r EXCEPT !.c = c] ELSE r

\* handle_events giving back the control as it was when an event fails
handle_events_atomic(c, events, fault) ==
    undone(c, handle_events_from([c |-> c, res |-> "Ok", change |-> FALSE], events, fault))

handle_events(c, events, fault) ==
    handle_events_from([c |-> c, res |-> "Ok", change |-> FALSE], events, fault)

\* ------------------------------------------------------------ Loaded::dae
\* io/dae.rs. A document is the ObjSet the collada crate parsed out of the
\* file: objects with their vertices, texture vertices and normals, and
\* their geometry, each geometry a list of primitive elements. Vectors are
\* sequences; the indices a triangle holds into object.vertices count from 0.
as_f32(v) == v       \* `v.x as f32`: exact on the small integers the documents hold

\* `push_vert`, lines 113-116, and the closure of the normals, lines 143-146
push_vert(positions, v) == positions \o <<as_f32(v.x), as_f32(v.y), as_f32(v.z)>>

\* `push_tex_vert`, lines 128-131
push_tex_vert(uvs, v) == uvs \o <<as_f32(v.x), as_f32(v.y)>>

\* `tris.vertices.into_iter().enumerate().for_each(|(i, v)| ...)`, lines
\* 102-120: vs are the triangles still to come, i the count enumerate() gives
RECURSIVE vertices_for_each(_, _, _, _)
vertices_for_each(object, vs, i, mesh) ==
    IF vs = <<>> THEN mesh
    ELSE LET v == Head(vs)
             j == i * 3
             m == [mesh EXCEPT
                      !.indices = @ \o <<j, j + 1, j + 2>>,
                      !.positions = push_vert(push_vert(push_vert(@,
                                        object.vertices[v[1]]),
                                        object.vertices[v[2]]),
                                        object.vertices[v[3]])]
         IN  vertices_for_each(object, Tail(vs), i + 1, m)

\* `tex_verts.into_iter().for_each(...)`, lines 123-135
RECURSIVE tex_verts_for_each(_, _, _)
tex_verts_for_each(object, vs, mesh) ==
    IF vs = <<>> THEN mesh
    ELSE LET v == Head(vs)
             m == [mesh EXCEPT
                      !.uvs = push_tex_vert(push_tex_vert(push_tex_vert(@,
                                  object.tex_vertices[v[1]]),
                                  object.tex_vertices[v[2]]),
                                  object.tex_vertices[v[3]])]
         IN  tex_verts_for_each(object, Tail(vs), m)

\* `norm_verts.into_iter().for_each(...)`, lines 138-150
RECURSIVE norm_verts_for_each(_, _, _)
norm_verts_for_each(object, vs, mesh) ==
    IF vs = <<>> THEN mesh
    ELSE LET v == Head(vs)
             m == [mesh EXCEPT
                      !.normals = push_vert(push_vert(push_vert(@,
                                      object.normals[v[1]]),
                                      object.normals[v[2]]),
                                      object.normals[v[3]])]
         IN  norm_verts_for_each(object, Tail(vs), m)

\* Option<T>: no value, or one
None == <<>>
Some(v) == <<v>>

\* `match shape`, lines 99-154: a Triangles primitive adds to the vectors of
\* the geometry, any other primitive is passed over
match_shape(object, shape, mesh) ==
    IF shape.kind # "Triangles" THEN mesh
    ELSE LET m1 == vertices_for_each(object, shape.vertices, 0, mesh)
             m2 == IF shape.tex_vertices = None THEN m1
                   ELSE tex_verts_for_each(object, shape.tex_vertices[1], m1)
         IN  IF shape.normals = None THEN m2
             ELSE norm_verts_for_each(object, shape.normals[1], m2)

\* `for shape in &geo.mesh[..]`, line 98
RECURSIVE shapes_from(_, _, _)
shapes_from(object, shapes, mesh) ==
    IF shapes = <<>> THEN mesh
    ELSE shapes_from(object, Tail(shapes), match_shape(object, Head(shapes), mesh))

\* one turn of `for geo in object.geometry.iter()`, lines 90-168: four fresh
\* vectors, the shapes, and the CPUMesh pushed
CPUMesh(object, geo) ==
    shapes_from(object, geo.mesh,
                [name |-> object.name, positions |-> <<>>, indices |-> <<>>,
                 normals |-> <<>>, uvs |-> <<>>])

\* `for geo in object.geometry.iter()`, line 89
RECURSIVE geometry_from(_, _, _)
geometry_from(object, geometry, cpu_meshes) ==
    IF geometry = <<>> THEN cpu_meshes
    ELSE geometry_from(object, Tail(geometry),
                       Append(cpu_meshes, CPUMesh(object, Head(geometry))))

\* `for object in obj_set.objects.into_iter()`, line 87
RECURSIVE objects_from(_, _)
objects_from(objects, cpu_meshes) ==
    IF objects = <<>> THEN cpu_meshes
    ELSE LET object == Head(objects) IN
         objects_from(Tail(objects), geometry_from(object, object.geometry, cpu_meshes))

\* Loaded::dae on a document without materials: `remove_bytes(path)?` of
\* line 22 fails for a path that was not loaded
dae(document, fault) ==
    IF fault = "remove_bytes"
    THEN [res |-> "IOError", cpu_meshes |-> <<>>, cpu_materials |-> <<>>]
    ELSE [res |-> "Ok", cpu_meshes |-> objects_from(document, <<>>),
          cpu_materials |-> <<>>]

NotLoaded ==
    [called |-> FALSE, document |-> <<>>, res |-> "Ok", cpu_meshes |-> <<>>,
     cpu_materials |-> <<>>]

\* --------------------------------------------------------- ShadedVertices
\* objects/shaded_vertices.rs. The buffers and the program are the crate's
\* buffer and program modules: a static vertex buffer holds the data it was
\* made with, and an instanced draw call reads the attributes bound to it.
StaticVertexBuffer_new_with_vec3(data) == [data |-> data]

fill_with(buffer, data) == [buffer EXCEPT !.data = data]

\* `positions.len() as u32/3`, line 43: the cast first, exact on the lengths
\* met here, then the division of integers
no_vertices_of(positions) == Len(positions) \div 3

ShadedVertices_new(positions) ==
    [alive |-> TRUE,
     instance_buffer |-> StaticVertexBuffer_new_with_vec3(positions),
     no_vertices |-> no_vertices_of(positions)]

\* update_positions with the line of its TODO comment in force
update_positions_filling(sv, positions) ==
    [sv EXCEPT !.instance_buffer = fill_with(@, positions)]

\* lines 47-50: the body is a comment
update_positions(sv, positions) == sv

\* render, lines 52-75: the draw call it ends with, and the instance
\* attribute bound for it at line 70 (one translation per instance)
ShadedVertices_render(sv) ==
    [op |-> "draw_elements_instanced", count |-> sv.no_vertices,
     translation |-> sv.instance_buffer.data, divisor |-> 1]

NoDraw == [op |-> "none", count |-> 0, translation |-> <<>>, divisor |-> 0]

NoShadedVertices ==
    [alive |-> FALSE, instance_buffer |-> StaticVertexBuffer_new_with_vec3(<<>>),
     no_vertices |-> 0]

NoVerticesCall ==
    [op |-> "none", positions |-> <<>>, given |-> <<>>, updates |-> 0, draw |-> NoDraw]

\* ---------------------------------------------------------------- actions
NoCall ==
    [op |-> "none", res |-> "Ok", len |-> 0, mip_map_filter |-> "None",
     width |-> 0, height |-> 0, format |-> "R", T |-> "u8", fault |-> Stage("none"),
     side |-> 0, level |-> 0, cbOk |-> TRUE, rtOk |-> TRUE, preFb |-> "default"]

Called(op, res) == [NoCall EXCEPT !.op = op, !.res = res, !.preFb = gl.fbBound]

Begin(g) == [g EXCEPT !.log = <<>>]

NewIn(cpus, types) ==
    /\ UNCHANGED <<camVars, daeVars, objVars>>
    /\ ~texture.alive
    /\ FreeHandles(gl) # {}
    /\ \E cpu \in cpus, T \in types, fault \in CtorFaults :
          LET r == new(Begin(gl), cpu, T, fault) IN
          /\ gl' = r.g
          /\ texture' = r.tex
          /\ last' = [Called("new", r.res) EXCEPT
                         !.len = cpu.len, !.mip_map_filter = cpu.mip_map_filter,
                         !.width = cpu.width, !.height = cpu.height,
                         !.format = cpu.format, !.T = T, !.fault = Stage(fault)]

NewEmptyIn(sizes, formats, filters, types) ==
    /\ UNCHANGED <<camVars, daeVars, objVars>>
    /\ ~texture.alive
    /\ FreeHandles(gl) # {}
    /\ \E wh \in sizes, f \in formats, m \in filters, T \in types,
          fault \in CtorFaults :
          LET w == wh[1]
              h == wh[2]
              r == new_empty(Begin(gl), w, h, m, f, T, fault)
          IN
          /\ gl' = r.g
          /\ texture' = r.tex
          /\ last' = [Called("new_empty", r.res) EXCEPT
                         !.mip_map_filter = m, !.width = w, !.height = h,
                         !.format = f, !.T = T, !.fault = Stage(fault)]

NewFromEquirectangularIn(widths, types) ==
    /\ UNCHANGED <<camVars, daeVars, objVars>>
    /\ ~texture.alive
    /\ Cardinality(FreeHandles(gl)) >= 2
    /\ \E w \in widths, T \in types, fault \in EquiFaults :
          LET r == new_from_equirectangular(Begin(gl), w, T, fault) IN
          /\ gl' = r.g
          /\ texture' = r.tex
          /\ last' = [Called("new_from_equirectangular", r.res) EXCEPT
                         !.mip_map_filter = "Linear", !.width = w, !.format = "RGBA",
                         !.T = T, !.fault = fault]

FillIn(slack) ==
    /\ UNCHANGED <<camVars, daeVars, objVars>>
    /\ texture.alive
    /\ \E len \in DataLens(texture.width, texture.height, texture.format, slack) :
          LET r == fill(Begin(gl), texture, len) IN
          /\ gl' = r.g
          /\ texture' = texture
          /\ last' = [Called("fill", r.res) EXCEPT !.len = len]

WriteIn(inputs) ==
    /\ UNCHANGED <<camVars, daeVars, objVars>>
    /\ texture.alive
    /\ \E in \in inputs :
          LET r == write(Begin(gl), texture, in.side, in.cb, in.rtOk) IN
          /\ gl' = r.g
          /\ texture' = texture
          /\ last' = [Called("write", r.res) EXCEPT
                         !.side = in.side, !.cbOk = in.cb.ok, !.rtOk = in.rtOk]

WriteToMipLevelIn(inputs) ==
    /\ UNCHANGED <<camVars, daeVars, objVars>>
    /\ texture.alive
    /\ \E in \in inputs, level \in 0..(texture.number_of_mip_maps + 1) :
          LET r == write_to_mip_level(Begin(gl), texture, in.side, level, in.cb, in.rtOk) IN
          /\ in.rtOk \/ level = 0
          /\ gl' = r.g
          /\ texture' = texture
          /\ last' = [Called("write_to_mip_level", r.res) EXCEPT
                         !.side = in.side, !.level = level, !.cbOk = in.cb.ok,
                         !.rtOk = in.rtOk]

Bind ==
    /\ UNCHANGED <<camVars, daeVars, objVars>>
    /\ texture.alive
    /\ gl' = bind(Begin(gl), texture)
    /\ texture' = texture
    /\ last' = Called("bind", "Ok")

Drop ==
    /\ UNCHANGED <<camVars, daeVars, objVars>>
    /\ texture.alive
    /\ gl' = drop(Begin(gl), texture)
    /\ texture' = NoTexture
    /\ last' = Called("drop", "Ok")

\* the application renders elsewhere: to the screen or to a target of its own
UseFramebuffer ==
    /\ UNCHANGED <<camVars, daeVars, objVars>>
    /\ \E fb \in {"default", "app"} :
          /\ fb # gl.fbBound
          /\ gl' = bind_framebuffer(Begin(gl), fb)
    /\ texture' = texture
    /\ last' = Called("use_framebuffer", "Ok")

\* a camera looking along x from the origin, under a perspective projection
Camera_new_perspective ==
    [position |-> Vec3(0, 0, 0), target |-> Vec3(1, 0, 0), up |-> Vec3(0, 1, 0),
     projection |-> Perspective]

NoCameraCall ==
    [op |-> "none", res |-> "Ok", change |-> Vec3(0, 0, 0), x |-> 0, y |-> 0,
     point |-> Vec3(0, 0, 0), minimum_distance |-> 0, maximum_distance |-> 0,
     fault |-> "none", events |-> <<>>, returned |-> FALSE]

\* a fresh context and no texture yet
InitContext ==
    /\ gl = [live |-> {}, freedDead |-> FALSE,
             texBound |-> 0, unit |-> 0, fbBound |-> "default", attach |-> NoAttachment,
             storage |-> [h \in Handles |-> NoStorage],
             faces |-> [h \in Handles |-> [s \in Sides |-> NoContent]],
             log |-> <<>>]
    /\ texture = NoTexture
    /\ last = NoCall

Init ==
    /\ InitContext
    /\ loaded = NotLoaded
    /\ vertices = NoShadedVertices
    /\ vlast = NoVerticesCall
    /\ control = CameraControl_new(Camera_new_perspective, EventHandler_default)
    /\ clast = NoCameraCall

\* the lifecycle specification: small textures, every operation, any order
RenderSizes == {<<d, d>> : d \in 1..RenderDim}
RenderFilters == {"None", "Linear"}

New == NewIn(CpuTextures(RenderSizes, {"RGBA"}, RenderFilters, 1), {"u8"})
NewEmpty == NewEmptyIn(RenderSizes, {"RGBA"}, RenderFilters, {"u8"})
NewFromEquirectangular ==
    NewFromEquirectangularIn({EquiDiv * d + k : d \in 1..RenderDim, k \in {0, EquiDiv - 1}},
                             {"u8"})
Fill == FillIn(1)
Write == WriteIn(RenderInputs)
WriteToMipLevel == WriteToMipLevelIn(RenderInputs)

Next ==
    \/ New
    \/ NewEmpty
    \/ NewFromEquirectangular
    \/ Fill
    \/ Write
    \/ WriteToMipLevel
    \/ Bind
    \/ Drop
    \/ UseFramebuffer

Spec == Init /\ [][Next]_vars

\* the construction specification: one texture per behaviour, built in a fresh
\* context from every size, format, filter, element type and data length
Sizes == (1..MaxDim) \X (1..MaxDim)

NewWide ==
    /\ last.op = "none"
    /\ NewIn(CpuTextures(Sizes, Formats, MipFilters, MaxSlack), DataTypes)

NewEmptyWide ==
    /\ last.op = "none"
    /\ NewEmptyIn(Sizes, Formats, MipFilters, DataTypes)

FillWide == FillIn(MaxSlack)

NextNew ==
    \/ NewWide
    \/ NewEmptyWide
    \/ FillWide
    \/ Drop

SpecNew == Init /\ [][NextNew]_vars

\* the face specification: one empty texture, then writes to any of its six
\* faces in any order
FaceInputs == [side : Sides, cb : Callbacks, rtOk : {TRUE}]

NewEmptyFaces ==
    /\ last.op = "none"
    /\ NewEmptyIn(RenderSizes, {"RGBA"}, RenderFilters, {"u8"})

WriteFaces == WriteIn(FaceInputs)
WriteToMipLevelFaces == WriteToMipLevelIn(FaceInputs)

NextFaces ==
    \/ NewEmptyFaces
    \/ WriteFaces
    \/ WriteToMipLevelFaces

SpecFaces == Init /\ [][NextFaces]_vars

\* the pass order specification: new_from_equirectangular in a fresh context
\* with its six passes made in every order
SideOrders == {p \in [1..NumSides -> Sides] : \A i, j \in 1..NumSides : p[i] = p[j] => i = j}

NewFromEquirectangularOver ==
    /\ UNCHANGED <<camVars, daeVars, objVars>>
    /\ last.op = "none"
    /\ \E w \in {EquiDiv * d : d \in 1..RenderDim}, sides \in SideOrders :
          LET r == new_from_equirectangular_over(Begin(gl), w, "u8", Stage("none"), sides) IN
          /\ gl' = r.g
          /\ texture' = r.tex
          /\ last' = [Called("new_from_equirectangular_over", r.res) EXCEPT
                         !.mip_map_filter = "Linear", !.width = w, !.format = "RGBA"]

NextOrder ==
    \/ NewFromEquirectangularOver
    \/ Drop

SpecOrder == Init /\ [][NextOrder]_vars

\* the camera specification: a camera control moved by translate, pan and
\* zoom_towards in any order, no texture involved
Lattice == {Vec3(x, y, z) : x \in 0..CamRange, y \in 0..1, z \in 0..1}

Cameras ==
    {Camera_new_perspective,
     [position |-> Vec3(1, 0, 0), target |-> Vec3(1, 0, 2), up |-> Vec3(0, 1, 0),
      projection |-> Perspective],
     [position |-> Vec3(1, 0, 0), target |-> Vec3(3, 0, 0), up |-> Vec3(0, 0, 1),
      projection |-> Orthographic(Height(1, 1))]}

Changes ==
    {Vec3(0, 0, 0), Vec3(1, 0, 0), Vec3(-1, 0, 0), Vec3(0, 1, 0), Vec3(0, -1, 0),
     Vec3(0, 0, 1), Vec3(0, 0, -1), Vec3(1, 1, 1)}

\* the points a zoom is aimed at: those the lattice measures exactly from
\* the camera, the camera's own position among them
ZoomPoints(c) ==
    IF c.position.nan THEN {Vec3(0, 0, 0)}
    ELSE {p \in Lattice : AxisAligned(sub(p, c.position))}

ZoomDeltas == {-2, 0, 1}
ZoomLimits == {<<0, 1>>, <<0, -1>>, <<2, 1>>, <<2, 2>>, <<1, CamRange>>}

\* the `?` that can fail in a call on this camera
CameraFaults(c) ==
    {"none", "set_view"} \cup
    IF c.projection.kind = "Orthographic" THEN {"set_orthographic_projection"} ELSE {}

InRange(c) ==
    /\ c.position.nan \/ c.position \in Lattice
    /\ c.projection.height.finite =>
           c.projection.height.num <= MaxHeight /\ c.projection.height.den <= MaxHeight

InitCamera ==
    /\ InitContext
    /\ loaded = NotLoaded
    /\ vertices = NoShadedVertices
    /\ vlast = NoVerticesCall
    /\ control \in {CameraControl_new(camera, EventHandler_default) : camera \in Cameras}
    /\ clast = NoCameraCall

CameraCalled(op, res, fault) == [NoCameraCall EXCEPT !.op = op, !.res = res, !.fault = fault]

Translate ==
    /\ UNCHANGED <<texVars, daeVars, objVars>>
    /\ \E change \in Changes, fault \in {"none", "set_view"} :
          LET r == translate(control, change, fault) IN
          /\ InRange(r.c)
          /\ control' = r.c
          /\ clast' = [CameraCalled("translate", r.res, fault) EXCEPT !.change = change]

Pan ==
    /\ UNCHANGED <<texVars, daeVars, objVars>>
    /\ \E x \in -1..1, y \in -1..1, fault \in {"none", "set_view"} :
          LET r == pan(control, x, y, fault) IN
          /\ InRange(r.c)
          /\ control' = r.c
          /\ clast' = [CameraCalled("pan", r.res, fault) EXCEPT !.x = x, !.y = y]

ZoomTowards ==
    /\ UNCHANGED <<texVars, daeVars, objVars>>
    /\ \E point \in ZoomPoints(control), delta \in ZoomDeltas, limits \in ZoomLimits,
          fault \in CameraFaults(control) :
          LET r == zoom_towards(control, point, delta, limits[1], limits[2], fault) IN
          /\ InRange(r.c)
          /\ control' = r.c
          /\ clast' = [CameraCalled("zoom_towards", r.res, fault) EXCEPT
                          !.point = point, !.minimum_distance = limits[1], !.maximum_distance = limits[2]]

NextCamera ==
    \/ Translate
    \/ Pan
    \/ ZoomTowards

SpecCamera == InitCamera /\ [][NextCamera]_vars

\* the event specification: a camera control fed batches of events, under
\* the default event handler and under two that move the camera
ZoomTarget == Vec3(CamRange, 0, 0)

EventHandlers ==
    {EventHandler_default,
     [left_drag |-> ControlType("Pan", Vec3(0, 0, 0), 1, 0, 0),
      middle_drag |-> ControlType_None,
      right_drag |-> ControlType("ZoomHorizontal", ZoomTarget, 1, 0, 1),
      scroll |-> ControlType("ZoomVertical", ZoomTarget, 1, 0, 1)],
     [left_drag |-> ControlType("ZoomHorizontal", ZoomTarget, 1, 1, CamRange),
      middle_drag |-> ControlType("RotateAround", ZoomTarget, 0, 0, 0),
      right_drag |-> ControlType("RotateAroundWithFixedUp", ZoomTarget, 0, 0, 0),
      scroll |-> ControlType("ZoomVertical", ZoomTarget, 1, 2, 1)]}

Event(kind, button, state, handled, x, y) ==
    [kind |-> kind, button |-> button, state |-> state, handled |-> handled,
     x |-> x, y |-> y]

MouseClick(button, state, handled) == Event("MouseClick", button, state, handled, 0, 0)

Events ==
    {MouseClick(b, st, FALSE) : b \in {"Left", "Middle", "Right"},
                                st \in {"Pressed", "Released"}}
    \cup {MouseClick("Left", st, TRUE) : st \in {"Pressed", "Released"}}
    \cup {Event("MouseMotion", "Left", "Released", FALSE, -1, 1),
          Event("MouseMotion", "Left", "Released", FALSE, 1, -1),
          Event("MouseMotion", "Left", "Released", TRUE, -1, 1),
          Event("MouseWheel", "Left", "Released", FALSE, 1, 1),
          Event("MouseWheel", "Left", "Released", TRUE, 1, 1),
          Event("Key", "Left", "Released", FALSE, 0, 0)}

\* the batches of one call: no event, one event, two events
Batches == {<<>>} \cup {<<e>> : e \in Events} \cup {<<e, f>> : e, f \in Events}

InitEvents ==
    /\ InitContext
    /\ loaded = NotLoaded
    /\ vertices = NoShadedVertices
    /\ vlast = NoVerticesCall
    /\ control \in {CameraControl_new(Camera_new_perspective, h) : h \in EventHandlers}
    /\ clast = NoCameraCall

HandleEvents ==
    /\ UNCHANGED <<texVars, daeVars, objVars>>
    /\ \E events \in Batches :
          \E r \in {handle_events(control, events, "none")} :
          /\ InRange(r.c)
          /\ control' = r.c
          /\ clast' = [CameraCalled("handle_events", r.res, "none") EXCEPT
                          !.events = events, !.returned = r.change]

NextEvents == HandleEvents

SpecEvents == InitEvents /\ [][NextEvents]_vars

\* ---- Loaded::dae on documents of one or two objects
Vertex(x, y, z) == [x |-> x, y |-> y, z |-> z]
TVertex(x, y) == [x |-> x, y |-> y]

\* the vertices of an object: as many as the triangles below refer to
ObjectVertices == [i \in 0..(MaxTris + 2) |-> Vertex(i, i + 1, 0)]
ObjectTexVertices == [i \in 0..(MaxTris + 2) |-> TVertex(i, 1)]
ObjectNormals == [i \in 0..(MaxTris + 2) |-> Vertex(0, 0, i + 1)]

Object(name, geometry) ==
    [name |-> name, vertices |-> ObjectVertices, tex_vertices |-> ObjectTexVertices,
     normals |-> ObjectNormals, geometry |-> geometry]

\* n triangles, triangle j on the vertices first + j - 1, first + j, first + j + 1
Strip(first, n) ==
    IF n = 0 THEN <<>>
    ELSE [j \in 1..n |-> <<first + j - 1, first + j, first + j + 1>>]

Triangles(vs, tex_vertices, normals) ==
    [kind |-> "Triangles", vertices |-> vs, tex_vertices |-> tex_vertices,
     normals |-> normals]

Polylist == [kind |-> "Polylist", vertices |-> <<>>, tex_vertices |-> None,
             normals |-> None]

Shapes ==
    {Triangles(Strip(first, n), None, None) : first \in 0..1, n \in 0..MaxTris}
    \cup {Triangles(Strip(0, n), Some(Strip(0, n)), Some(Strip(0, n))) : n \in 1..MaxTris}
    \cup {Polylist}

Geometries(n) == {[mesh |-> m] : m \in UNION {[1..k -> Shapes] : k \in 0..n}}

Objects ==
    {Object("a", <<g>>) : g \in Geometries(MaxShapes)}
    \cup {Object("a", <<g, h>>) : g \in Geometries(MaxShapes), h \in Geometries(1)}

SecondObjects ==
    {Object("b", <<[mesh |-> <<s>>]>>) :
        s \in {Triangles(Strip(1, 1), None, None), Polylist}}

Documents == {<<o>> : o \in Objects} \cup {<<o, p>> : o \in Objects, p \in SecondObjects}

DaeFaults == {"none", "remove_bytes"}

Dae ==
    /\ UNCHANGED <<texVars, camVars, objVars>>
    /\ ~loaded.called
    /\ \E document \in Documents, fault \in DaeFaults :
          LET r == dae(document, fault) IN
          loaded' = [called |-> TRUE, document |-> document, res |-> r.res,
                     cpu_meshes |-> r.cpu_meshes, cpu_materials |-> r.cpu_materials]

NextDae == Dae

SpecDae == Init /\ [][NextDae]_vars

\* ---- ShadedVertices: made, updated and rendered in any order
Positions == UNION {[1..n -> 0..1] : n \in 0..MaxPositions}

VerticesCalled(op, positions) ==
    [vlast EXCEPT !.op = op, !.positions = positions, !.draw = NoDraw]

NewVertices ==
    /\ UNCHANGED <<texVars, camVars, daeVars>>
    /\ \E positions \in Positions :
          /\ vertices' = ShadedVertices_new(positions)
          /\ vlast' = [VerticesCalled("new", positions) EXCEPT
                          !.given = positions, !.updates = 0]

UpdatePositions ==
    /\ UNCHANGED <<texVars, camVars, daeVars>>
    /\ vertices.alive
    /\ vlast.updates < MaxUpdates
    /\ \E positions \in Positions :
          /\ vertices' = update_positions(vertices, positions)
          /\ vlast' = [VerticesCalled("update_positions", positions) EXCEPT
                          !.updates = @ + 1]

Render ==
    /\ UNCHANGED <<texVars, camVars, daeVars>>
    /\ vertices.alive
    /\ vertices' = vertices
    /\ vlast' = [VerticesCalled("render", <<>>) EXCEPT !.draw = ShadedVertices_render(vertices)]

NextVertices == NewVertices \/ UpdatePositions \/ Render

SpecVertices == Init /\ [][NextVertices]_vars

\* ------------------------------------------------------------ properties
LogHas(op) == \E i \in 1..Len(gl.log) : gl.log[i].op = op
LogCount(op) == Cardinality({i \in 1..Len(gl.log) : gl.log[i].op = op})
Owned == IF texture.alive THEN {texture.id} ELSE {}
SixFaces(width, height, format) == 6 * width * height * color_channel_count(format)

\* C1: fill fails with SizeMismatch whenever the data length is not exactly
\* 6 * width * height * channels(format), lengths that are not a multiple of 6
\* included, and succeeds only with exactly that length.
C1_FillRejectsEveryOtherLength ==
    last.op = "fill" =>
        /\ last.res = "Ok" <=> last.len = SixFaces(texture.width, texture.height, texture.format)
        /\ last.res \in {"Ok", "SizeMismatch"}

\* C2: a fill that returns an error leaves the texture as it was: no face is
\* uploaded, no mip-map is regenerated, no device call is made, and width,
\* height, format and mip count are unchanged.
C2_FailedFillChangesNothing ==
    [][(last'.op = "fill" /\ last'.res # "Ok") =>
           (texture' = texture /\ gl' = Begin(gl))]_vars

C2_Witness ==
    /\ last.op = "fill"
    /\ last.res = "SizeMismatch"
    /\ texture.alive
    /\ \E s \in Sides : gl.faces[texture.id][s].kind = "rendered"
    /\ \E s \in Sides : gl.faces[texture.id][s].kind = "data"

\* C3: new succeeds exactly when the data holds six faces of
\* width * height * channels(format) elements and fails with SizeMismatch
\* otherwise; after a failure no texture object and no handle of it is left.
C3_NewAcceptsExactlySixFaces ==
    (last.op = "new" /\ last.fault.stage = "none") =>
        /\ last.res = "Ok" <=> last.len = SixFaces(last.width, last.height, last.format)
        /\ last.res = "Ok" => texture.alive
        /\ last.res # "Ok" => last.res = "SizeMismatch" /\ ~texture.alive /\ gl.live = {}

\* C4: texture handles are never leaked or double-freed: the handles live on
\* the device are exactly those owned by a live texture object, and no handle
\* is deleted that was not live.
C4_HandlesFreedExactlyOnce ==
    /\ gl.live = Owned
    /\ ~gl.freedDead

RenderOps == {"write", "write_to_mip_level"}
At(op) == {i \in 1..Len(gl.log) : gl.log[i].op = op}
Before(a, b) == \A i \in At(a), j \in At(b) : i < j

\* C5: a scoped cube map write (write or write_to_mip_level) leaves the
\* framebuffer binding as it was before the call, whether the callback
\* returned Ok or an error.
C5_WriteRestoresFramebuffer ==
    last.op \in RenderOps => gl.fbBound = last.preFb

C5_Witness ==
    /\ last.op = "write"
    /\ last.res = "RenderError"
    /\ ~last.cbOk
    /\ last.preFb = "app"
    /\ LogCount("bind_framebuffer") = 2

\* the trace of a write with the level of its attachment left out
Masked(log) ==
    [i \in DOMAIN log |->
        IF log[i].op = "framebuffer_texture_2d" THEN [log[i] EXCEPT !.c = 0] ELSE log[i]]

SameButLevel(a, b) ==
    /\ a.res = b.res
    /\ Masked(a.g.log) = Masked(b.g.log)
    /\ a.g.fbBound = b.g.fbBound
    /\ a.g.texBound = b.g.texBound
    /\ a.g.live = b.g.live

\* C6: for a cube map with more than one mip level, write and
\* write_to_mip_level regenerate the mip-maps after the callback returns, also
\* when the callback fails; the two differ only in the face/level bound.
C6_WriteRegeneratesMipMaps ==
    /\ (last.op \in RenderOps /\ LogHas("callback") /\ texture.number_of_mip_maps > 1) =>
           \E j \in At("generate_mipmap") :
               /\ gl.log[j].a = texture.id
               /\ \A i \in At("callback") \cup At("draw") : i < j
    /\ texture.alive =>
           \A side \in Sides, cb \in Callbacks, level \in 0..(texture.number_of_mip_maps - 1) :
               SameButLevel(write(Begin(gl), texture, side, cb, TRUE),
                            write_to_mip_level(Begin(gl), texture, side, level, cb, TRUE))

C6_Witness ==
    /\ last.op = "write_to_mip_level"
    /\ last.res = "RenderError"
    /\ last.level = 1
    /\ texture.number_of_mip_maps > 1
    /\ LogHas("callback")
    /\ LogHas("generate_mipmap")

\* C7: in a scoped write the clear is applied exactly once, after the face and
\* level have been attached and before the callback starts, never during or
\* after it, and the callback is invoked at most once.
C7_ClearOnceBeforeCallback ==
    last.op \in RenderOps =>
        /\ LogCount("callback") <= 1
        /\ LogCount("clear") <= 1
        /\ last.res \in {"Ok", "RenderError"} =>
               /\ LogCount("clear") = 1
               /\ LogCount("callback") = 1
               /\ LogCount("framebuffer_texture_2d") = 1
               /\ Before("framebuffer_texture_2d", "clear")
               /\ Before("clear", "callback")
               /\ Before("clear", "draw")
        /\ last.res \notin {"Ok", "RenderError"} =>
               LogCount("clear") = 0 /\ LogCount("callback") = 0

C7_Witness ==
    /\ last.op = "write"
    /\ last.res = "Ok"
    /\ LogCount("clear") = 1
    /\ LogCount("callback") = 1
    /\ LogCount("draw") = 1

\* C8: write_to_mip_level with a mip level that is not below the number of mip
\* levels fails with InvalidAttachment before any device state is changed: no
\* framebuffer bind, no attachment, no clear, no callback.
C8_BadLevelFailsUpFront ==
    (last.op = "write_to_mip_level" /\ last.rtOk
        /\ last.level >= texture.number_of_mip_maps) =>
        /\ last.res = "InvalidAttachment"
        /\ \A op \in {"bind_framebuffer", "framebuffer_texture_2d", "clear", "callback",
                       "draw", "bind_texture", "generate_mipmap"} : ~LogHas(op)
        /\ gl.fbBound = last.preFb
        /\ gl.attach = NoAttachment

C8_Witness ==
    /\ last.op = "write_to_mip_level"
    /\ last.res = "InvalidAttachment"
    /\ texture.number_of_mip_maps = 2
    /\ last.level = 2

\* the chain depth the sizes call for, stated without the code's helpers
PowersOfTwo == {2^k : k \in 0..MaxDim}
ChainDepth(mip_map_filter, width, height) ==
    LET m == IF width >= height THEN width ELSE height IN
    IF mip_map_filter # "None" /\ width \in PowersOfTwo /\ height \in PowersOfTwo
    THEN CHOOSE d \in 1..(MaxDim + 1) : 2^(d - 1) <= m /\ m < 2^d
    ELSE 1

Constructors == {"new", "new_empty"}

\* C9: the mip count stored by new and new_empty is
\* floor(log2(max(width, height))) + 1 when a mip filter was requested and both
\* width and height are powers of two, and 1 in every other case.
C9_StoredChainDepth ==
    (last.op \in Constructors /\ last.res = "Ok") =>
        /\ texture.number_of_mip_maps =
               ChainDepth(last.mip_map_filter, last.width, last.height)
        /\ gl.storage[texture.id].levels = texture.number_of_mip_maps

C9_Witness ==
    /\ last.op = "new"
    /\ last.res = "Ok"
    /\ last.mip_map_filter = "Nearest"
    /\ last.width = 2
    /\ last.height = 4
    /\ texture.number_of_mip_maps = 3

\* C10: a mip filter requested for a chain of depth 1 does not make the
\* construction fail: the texture gets the mip filter parameter none and
\* storage of one level; the requested filter is passed on only when the depth
\* is greater than 1.
C10_MipFilterFallsBackToNone ==
    last.op \in Constructors =>
        /\ \A i \in At("set_parameters"), j \in At("tex_storage_2d") :
               gl.log[i].b = IF gl.log[j].b = 1 THEN FilterCode("None")
                             ELSE FilterCode(last.mip_map_filter)
        /\ (/\ last.fault.stage = "none"
            /\ last.op = "new" => last.len = SixFaces(last.width, last.height, last.format)) =>
               /\ last.res = "Ok"
               /\ LogCount("set_parameters") = 1
               /\ gl.storage[texture.id] =
                      [calls |-> 1, levels |-> texture.number_of_mip_maps,
                       width |-> last.width, height |-> last.height]

C10_Witness ==
    /\ last.op = "new"
    /\ last.res = "Ok"
    /\ last.mip_map_filter = "Linear"
    /\ last.width = 3
    /\ texture.number_of_mip_maps = 1
    /\ gl.storage[texture.id].levels = 1
    /\ \E i \in At("set_parameters") : gl.log[i].b = FilterCode("None")

\* C11: storage is allocated exactly once, during construction: a constructed
\* texture has one allocation of its own size and mip count, and no fill,
\* write, write_to_mip_level or bind allocates storage again or changes the
\* width, height, format, HDR flag or number of mip levels.
UseOps == {"fill", "write", "write_to_mip_level", "bind"}
AllConstructors == Constructors \cup {"new_from_equirectangular"}

C11_StorageAllocatedOnce ==
    [][/\ (last'.op \in AllConstructors /\ texture'.alive) =>
              gl'.storage[texture'.id] =
                  [calls |-> 1, levels |-> texture'.number_of_mip_maps,
                   width |-> texture'.width, height |-> texture'.height]
       /\ (last'.op \in UseOps) =>
              /\ texture' = texture
              /\ gl'.storage = gl.storage
              /\ \A i \in 1..Len(gl'.log) : gl'.log[i].op # "tex_storage_2d"]_vars

C11_Witness ==
    /\ last.op = "bind"
    /\ texture.number_of_mip_maps > 1
    /\ gl.storage[texture.id].calls = 1
    /\ \E s \in Sides : gl.faces[texture.id][s].kind = "data"
    /\ \E s \in Sides : gl.faces[texture.id][s].kind = "rendered"

\* the T::fill calls of the last operation, in the order they were made
Uploads == SelectSeq(gl.log, LAMBDA e : e.op = "fill")

\* C12: a successful fill (and so a successful new) uploads exactly six faces,
\* in the order right, left, top, bottom, front, back: face i receives exactly
\* data[i*F .. (i+1)*F) with F = width * height * channels(format), and the
\* six slices are pairwise disjoint and together cover all of data.
C12_SixSlicesCoverData ==
    (last.op \in {"fill", "new"} /\ last.res = "Ok") =>
        LET F == FaceLen(texture.width, texture.height, texture.format) IN
        /\ Len(Uploads) = NumSides
        /\ \A i \in Sides : Uploads[i + 1] = Ev("fill", i, i * F, (i + 1) * F)
        /\ \A i \in Sides :
               gl.faces[texture.id][i] = [kind |-> "data", lo |-> i * F, hi |-> (i + 1) * F]
        /\ NumSides * F = last.len

\* C13: every successful fill regenerates the mip-maps after all six faces are
\* uploaded, never before or between the uploads, and does so exactly when the
\* stored chain depth is above one.
C13_FillRegeneratesAfterUploads ==
    (last.op \in {"fill", "new"} /\ last.res = "Ok") =>
        /\ Cardinality(At("fill")) = NumSides
        /\ Before("fill", "generate_mipmap")
        /\ Cardinality(At("generate_mipmap")) =
               IF texture.number_of_mip_maps > 1 THEN 1 ELSE 0
        /\ \A i \in At("generate_mipmap") : gl.log[i].a = texture.id

C13_Witness ==
    /\ last.op = "fill"
    /\ last.res = "Ok"
    /\ texture.number_of_mip_maps = 3
    /\ gl.log[Len(gl.log)] = Ev("generate_mipmap", texture.id, 0, 0)
    /\ gl.log[Len(gl.log) - 2].op = "fill"

\* C18: the HDR flag is true exactly when the element type has more than 8
\* bits per channel (false for 8-bit data, true for 32-bit float data), and a
\* texture built by new has the same flag as one built by new_empty with the
\* same element type.
C18_HdrFlagFromElementType ==
    (last.op \in Constructors /\ last.res = "Ok") =>
        /\ texture.is_hdr <=> bits_per_channel(last.T) > 8
        /\ texture.is_hdr <=> last.T = "f32"
        /\ texture.is_hdr = new(Begin(gl), [width |-> 1, height |-> 1, format |-> "R",
                                             mip_map_filter |-> "None", len |-> 6],
                                 last.T, "none").tex.is_hdr
        /\ texture.is_hdr = new_empty(Begin(gl), 1, 1, "None", "R", last.T, "none").tex.is_hdr

C18_Witness ==
    /\ last.op = "new_empty"
    /\ last.T = "f32"
    /\ texture.alive
    /\ texture.is_hdr

\* the place of the one device call of this kind made for a side, 0 if none
\* or several
CallFor(op, side) ==
    LET I == {i \in At(op) : gl.log[i].a = side} IN
    IF Cardinality(I) = 1 THEN CHOOSE i \in I : TRUE ELSE 0

\* C15: a successful new_from_equirectangular renders exactly six passes, one
\* per side and each side once; in every pass the source texture is bound to
\* the program before the pass is applied; the cube map returned is square
\* with side = source width / 4.
C15_SixPassesSourceBoundFirst ==
    (last.op = "new_from_equirectangular" /\ last.res = "Ok") =>
        /\ Cardinality(At("framebuffer_texture_2d")) = NumSides
        /\ Cardinality(At("use_texture")) = NumSides
        /\ Cardinality(At("draw")) = NumSides
        /\ \A s \in Sides : CallFor("framebuffer_texture_2d", s) # 0
        /\ \A i \in At("framebuffer_texture_2d") :
               /\ gl.log[i].b = texture.id
               /\ \E j \in At("use_texture") :
                      /\ j < i
                      /\ gl.log[j].a # texture.id
                      /\ \A k \in (j + 1)..(i - 1) :
                             gl.log[k].op \notin {"use_texture", "draw", "framebuffer_texture_2d"}
        /\ \A s \in Sides : gl.faces[texture.id][s] = [kind |-> "rendered", lo |-> 1, hi |-> 0]
        /\ texture.width = last.width \div 4
        /\ texture.height = texture.width
        /\ 4 * texture.width <= last.width /\ last.width < 4 * (texture.width + 1)

C15_Witness ==
    /\ last.op = "new_from_equirectangular"
    /\ last.res = "Ok"
    /\ last.width = 4 * RenderDim + 3
    /\ texture.alive
    /\ texture.width = RenderDim
    /\ gl.faces[texture.id][NumSides - 1].kind = "rendered"

\* C17: a binding failure (UnknownBinding) or a render failure in any pass of
\* new_from_equirectangular is never swallowed: the constructor stops at the
\* first failing pass, returns that error and returns no cube map.
C17_PassFailureStopsConstruction ==
    (last.op = "new_from_equirectangular" /\ last.fault.stage \in {"use_texture", "apply"}) =>
        /\ last.res = IF last.fault.stage = "use_texture"
                      THEN "UnknownBinding" ELSE "RenderError"
        /\ ~texture.alive
        /\ \A i \in At("framebuffer_texture_2d") : gl.log[i].a <= last.fault.side
        /\ Cardinality(At("framebuffer_texture_2d")) =
               IF last.fault.stage = "use_texture"
               THEN last.fault.side ELSE last.fault.side + 1
        /\ Cardinality(At("use_texture")) = Cardinality(At("framebuffer_texture_2d"))

C17_Witness ==
    /\ last.op = "new_from_equirectangular"
    /\ last.fault = [stage |-> "use_texture", side |-> 3]
    /\ last.res = "UnknownBinding"
    /\ ~texture.alive
    /\ Cardinality(At("draw")) = 3

\* C14: face writes are independent: a write to one face (write or
\* write_to_mip_level, through bind_as_color_target with that side) attaches
\* only that face of this texture and leaves the base-level contents of the
\* other five faces as they were, for every face and every sequence of writes.
C14_WriteTouchesOneFace ==
    [][(last'.op \in RenderOps /\ texture.alive) =>
           /\ \A s \in Sides \ {last'.side} :
                  gl'.faces[texture.id][s] = gl.faces[texture.id][s]
           /\ \A i \in 1..Len(gl'.log) :
                  gl'.log[i].op = "framebuffer_texture_2d" =>
                      gl'.log[i].a = last'.side /\ gl'.log[i].b = texture.id
           /\ (last'.res = "Ok" /\ last'.level = 0) =>
                  gl'.faces[texture.id][last'.side].kind = "rendered"]_vars

C14_Witness ==
    /\ last.op = "write"
    /\ last.res = "Ok"
    /\ last.side = 4
    /\ gl.faces[texture.id][4].kind = "rendered"
    /\ gl.faces[texture.id][1].kind = "rendered"
    /\ \A s \in Sides \ {1, 4} : gl.faces[texture.id][s] = NoContent

\* C16: the six passes of new_from_equirectangular do not depend on their
\* order: made in any permutation of the sides, they give the same result,
\* the same cube map and the same final contents of every face as in the
\* order of the code.
C16_PassOrderDoesNotMatter ==
    [][last'.op = "new_from_equirectangular_over" =>
           LET r == new_from_equirectangular(Begin(gl), last'.width, last'.T, last'.fault) IN
           /\ last'.res = r.res
           /\ texture' = r.tex
           /\ gl'.faces = r.g.faces
           /\ Begin(gl') = Begin(r.g)]_vars

C16_Witness ==
    /\ last.op = "new_from_equirectangular_over"
    /\ last.res = "Ok"
    /\ \E i \in At("framebuffer_texture_2d") :
           /\ gl.log[i].a = NumSides - 1
           /\ \A j \in At("framebuffer_texture_2d") : i <= j
    /\ \A s \in Sides : gl.faces[texture.id][s] = [kind |-> "rendered", lo |-> 1, hi |-> 0]

\* the distance from the camera to a point; not a number when the position is none
Distance(c, point) == magnitude(sub(point, c.position))

\* C19: after every successful zoom_towards(point, delta, min, max) the
\* distance from the camera position to point lies in [min, max], for every
\* delta and every starting distance, those outside [min, max] included.
C19_ZoomKeepsDistanceInRange ==
    (clast.op = "zoom_towards" /\ clast.res = "Ok") =>
        /\ ~control.position.nan
        /\ clast.minimum_distance <= Distance(control, clast.point)
        /\ Distance(control, clast.point) <= clast.maximum_distance

\* C20: translate(change) and pan(x, y) keep the view direction and the up
\* direction: after the call target - position and up are what they were,
\* and position and target have both moved by the same vector (by change,
\* for a translate that succeeds).
C20_TranslateAndPanKeepTheView ==
    [][(clast'.op \in {"translate", "pan"} /\ ~control.position.nan) =>
           /\ ~control'.position.nan /\ ~control'.target.nan
           /\ sub(control'.target, control'.position) = sub(control.target, control.position)
           /\ control'.up = control.up
           /\ sub(control'.position, control.position) = sub(control'.target, control.target)
           /\ (clast'.op = "translate" /\ clast'.res = "Ok") =>
                  sub(control'.position, control.position) = clast'.change
           /\ control'.projection = control.projection]_vars

C20_Witness ==
    /\ clast.op = "pan"
    /\ clast.res = "Ok"
    /\ clast.x = -1 /\ clast.y = 1
    /\ control.position = Vec3(0, 1, 1)
    /\ control.target = Vec3(1, 1, 1)
    /\ control.up = Vec3(0, 1, 0)

\* C21: zoom_towards returns a CameraError and leaves the camera (position,
\* target, up, projection) unchanged when minimum_distance <= 0, zero
\* included, or when maximum_distance < minimum_distance; the minimum check
\* is made first.
C21_ZoomRejectsBadLimits ==
    [][clast'.op = "zoom_towards" =>
           /\ clast'.minimum_distance <= 0 => clast'.res = NegativeMinimum
           /\ (clast'.minimum_distance > 0 /\ clast'.maximum_distance < clast'.minimum_distance)
                  => clast'.res = SmallerMaximum
           /\ clast'.res \in CameraErrors =>
                  /\ control' = control
                  /\ clast'.minimum_distance <= 0
                         \/ clast'.maximum_distance < clast'.minimum_distance]_vars

C21_Witness ==
    /\ clast.op = "zoom_towards"
    /\ clast.minimum_distance = 0
    /\ clast.maximum_distance < 0
    /\ clast.res = NegativeMinimum
    /\ control.projection.kind = "Orthographic"
    /\ control.position # Vec3(1, 0, 0)

\* ---- handle_events, stated without the loop
Unhandled(events) == SelectSeq(events, LAMBDA e : ~e.handled)
Prefix(events, n) == SubSeq(events, 1, n)

\* the flag of a button after the events: what its latest unhandled click
\* says, or the flag it had
Latest(events, button, flag) ==
    LET I == {i \in 1..Len(events) :
                 /\ events[i].kind = "MouseClick"
                 /\ ~events[i].handled
                 /\ events[i].button = button}
    IN  IF I = {} THEN flag
        ELSE events[CHOOSE i \in I : \A j \in I : j <= i].state = "Pressed"

FlagsAfter(c, events) ==
    [left |-> Latest(events, "Left", c.left),
     middle |-> Latest(events, "Middle", c.middle),
     right |-> Latest(events, "Right", c.right)]

Flags(c) == [left |-> c.left, middle |-> c.middle, right |-> c.right]

\* the camera of a control: what its flags and handler are not
CameraOf(c) ==
    [position |-> c.position, target |-> c.target, up |-> c.up,
     projection |-> c.projection]

\* event i of a batch is one that drags: an unhandled motion met with a
\* pressed button whose control type is not None, or an unhandled wheel
\* with a scroll control type that is not None
Drags(c, events, i) ==
    LET e == events[i]
        f == FlagsAfter(c, Prefix(events, i - 1))
        h == c.event_handler
    IN  /\ ~e.handled
        /\ \/ /\ e.kind = "MouseMotion"
              /\ \/ f.left /\ h.left_drag.kind # "None"
                 \/ f.middle /\ h.middle_drag.kind # "None"
                 \/ f.right /\ h.right_drag.kind # "None"
           \/ e.kind = "MouseWheel" /\ h.scroll.kind # "None"

\* C22: an event whose handled flag is true has no effect in handle_events:
\* the call does what it does on the batch without its handled events, so a
\* handled click changes no pressed flag, and a handled motion or wheel
\* neither moves the camera nor counts for the returned flag.
C22_HandledEventsHaveNoEffect ==
    [][clast'.op = "handle_events" =>
           LET r == handle_events(control, Unhandled(clast'.events), "none") IN
           /\ control' = r.c
           /\ clast'.res = r.res
           /\ clast'.returned = r.change
           /\ (\A i \in 1..Len(clast'.events) : clast'.events[i].handled) =>
                  control' = control /\ clast'.res = "Ok" /\ ~clast'.returned]_vars

C22_Witness ==
    /\ clast.op = "handle_events"
    /\ clast.events = <<MouseClick("Left", "Pressed", TRUE),
                        Event("MouseMotion", "Left", "Released", FALSE, -1, 1)>>
    /\ control.event_handler.left_drag.kind = "Pan"
    /\ ~control.left
    /\ control.right
    /\ control.position = Vec3(0, 0, 0)

\* C23 as stated: after any sequence of handle_events calls each pressed flag
\* is true exactly when the most recent unhandled MouseClick for its button
\* had state Pressed, false if there was none.
C23_FlagsFollowLatestClick ==
    [][clast'.op = "handle_events" =>
           Flags(control') = FlagsAfter(control, clast'.events)]_vars

\* C23, amended: each pressed flag is what the most recent unhandled
\* MouseClick for its button among the events processed says: all events of
\* a call that returns Ok, in order, and the events before the failing one of
\* a call that returns an error. Flags persist across calls, and a handled
\* release does not clear a flag.
C23_FlagsFollowLatestProcessedClick ==
    [][clast'.op = "handle_events" =>
           /\ clast'.res = "Ok" => Flags(control') = FlagsAfter(control, clast'.events)
           /\ clast'.res # "Ok" =>
                  \E k \in 1..Len(clast'.events) :
                      /\ Drags(control, clast'.events, k)
                      /\ Flags(control') = FlagsAfter(control, Prefix(clast'.events, k - 1))]_vars

C23_Witness ==
    /\ clast.op = "handle_events"
    /\ clast.res = "Ok"
    /\ clast.events = <<MouseClick("Left", "Pressed", FALSE),
                        MouseClick("Left", "Released", TRUE)>>
    /\ control.left
    /\ control.middle
    /\ ~control.right

\* C24 as stated: handle_events returns Ok(true) exactly when the batch has
\* an event that drags, and Ok(false) otherwise.
C24_ReturnsTrueExactlyForDrags ==
    [][clast'.op = "handle_events" =>
           /\ clast'.res = "Ok"
           /\ clast'.returned <=>
                  \E i \in 1..Len(clast'.events) : Drags(control, clast'.events, i)]_vars

\* C24, amended: a call that returns Ok returns Ok(true) exactly when the
\* batch has an event that drags and Ok(false) otherwise, and a call on a
\* batch without such an event returns Ok; with all control types None the
\* camera never changes; one unhandled motion applies the drags of the
\* pressed buttons in the order left, middle, right.
C24_OkReturnsTrueExactlyForDrags ==
    [][clast'.op = "handle_events" =>
           LET events == clast'.events
               drags == \E i \in 1..Len(events) : Drags(control, events, i)
               h == control.event_handler
           IN
           /\ clast'.res = "Ok" => (clast'.returned <=> drags)
           /\ ~drags => clast'.res = "Ok"
           /\ h = EventHandler_default => CameraOf(control') = CameraOf(control)
           /\ (Len(events) = 1 /\ events[1].kind = "MouseMotion" /\ ~events[1].handled
               /\ clast'.res = "Ok") =>
                  LET x == events[1].x
                      y == events[1].y
                      c1 == IF control.left
                            THEN handle_drag(control, h.left_drag, x, y, "none").c
                            ELSE control
                      c2 == IF control.middle
                            THEN handle_drag(c1, h.middle_drag, x, y, "none").c
                            ELSE c1
                      c3 == IF control.right
                            THEN handle_drag(c2, h.right_drag, x, y, "none").c
                            ELSE c2
                  IN  control' = c3]_vars

C24_Witness ==
    /\ clast.op = "handle_events"
    /\ clast.res = "Ok"
    /\ clast.returned
    /\ clast.events = <<Event("MouseMotion", "Left", "Released", FALSE, 1, -1)>>
    /\ control.left /\ control.middle /\ control.right
    /\ control.event_handler.middle_drag.kind = "RotateAround"
    /\ control.position = Vec3(1, 0, 0)

\* C25: handle_events is not atomic over a batch: when the drag of event k
\* returns an error the call returns that error at once, the events after k
\* are not processed, and the flag changes and camera movements made by the
\* events before k, and by the drags of event k before the failing one, stay.
C25_FailingEventEndsTheCall ==
    [][(clast'.op = "handle_events" /\ clast'.res # "Ok") =>
           \E k \in 1..Len(clast'.events) :
               LET before == handle_events(control, Prefix(clast'.events, k - 1), "none")
                   turn == handle_event(before, clast'.events[k], "none")
               IN  /\ before.res = "Ok"
                   /\ Drags(control, clast'.events, k)
                   /\ turn.res = clast'.res
                   /\ control' = turn.c
                   /\ Flags(control') = FlagsAfter(control, Prefix(clast'.events, k - 1))
                   /\ ~clast'.returned]_vars

C25_Witness ==
    /\ clast.op = "handle_events"
    /\ clast.res = NegativeMinimum
    /\ clast.events = <<MouseClick("Right", "Pressed", FALSE),
                        Event("MouseMotion", "Left", "Released", FALSE, -1, 1)>>
    /\ control.left /\ control.right
    /\ control.position = Vec3(0, 1, 1)

\* ---- Loaded::dae, stated from the document
RECURSIVE Concat(_)
Concat(seqs) == IF seqs = <<>> THEN <<>> ELSE Head(seqs) \o Concat(Tail(seqs))

\* the geometries of a document in the order of their meshes, each with its object
GeometriesOf(document) ==
    Concat([o \in 1..Len(document) |->
               [g \in 1..Len(document[o].geometry) |->
                   [object |-> document[o], geo |-> document[o].geometry[g]]]])

\* the triangles of a geometry, over all its Triangles primitives, in order
TrianglesOf(geo) ==
    Concat([s \in 1..Len(geo.mesh) |->
               IF geo.mesh[s].kind = "Triangles" THEN geo.mesh[s].vertices ELSE <<>>])

\* the vertex that index i of a mesh refers to: three floats of positions
VertexAt(mesh, i) ==
    Vertex(mesh.positions[3 * i + 1], mesh.positions[3 * i + 2], mesh.positions[3 * i + 3])

\* C26: for every mesh produced by Loaded::dae, positions.len() is
\* 3 * indices.len(), indices is 0, 1, ..., 3n-1 in order, and the three
\* indices emitted for a triangle refer to the three vertices appended for
\* that triangle, also when a geometry has more than one Triangles primitive.
C26_IndicesReferToOwnTriangle ==
    (loaded.called /\ loaded.res = "Ok") =>
        LET sources == GeometriesOf(loaded.document) IN
        /\ Len(loaded.cpu_meshes) = Len(sources)
        /\ \A m \in 1..Len(sources) :
               LET mesh == loaded.cpu_meshes[m]
                   object == sources[m].object
                   triangles == TrianglesOf(sources[m].geo)
               IN  /\ Len(mesh.positions) = 3 * Len(mesh.indices)
                   /\ Len(mesh.indices) = 3 * Len(triangles)
                   /\ \A k \in 1..Len(mesh.indices) : mesh.indices[k] = k - 1
                   /\ \A t \in 1..Len(triangles) : \A corner \in 1..3 :
                          LET i == mesh.indices[3 * (t - 1) + corner] IN
                          /\ i < Len(mesh.indices)
                          /\ VertexAt(mesh, i) = object.vertices[triangles[t][corner]]

====
